---- MODULE Spec2Model ----
(***************************************************************************)
(* The login page of telegram-search (packages/frontend/src/pages/         *)
(* login.vue) as a state machine: the reactive LoginState, the page        *)
(* initialisation started by onMounted, the user's entry points            *)
(* (handleLogin, retryLogin, toggleAdvancedSettings, the v-model inputs)   *)
(* and the completions of the calls made through useAuth; and the routes   *)
(* of the API server under /auth as handlers of one request each.          *)
(*                                                                         *)
(* JavaScript runs every handler to its next await without interruption,   *)
(* so one action is the part of a handler between two awaits.              *)
(***************************************************************************)
EXTENDS Integers, Sequences, FiniteSets, TLC

VARIABLES
    state,      \* login.vue:25-38, the reactive LoginState
    config,     \* useConfig().config, null until getConfig() has resolved
    pc,         \* where initializeLoginPage stands: "getConfig" or "done"
    inflight,   \* the useAuth calls awaited and not yet resolved, oldest first
    navigation, \* the redirect of handleSuccessfulConnection: none, scheduled, left
    last,       \* the last event handled (observation only, read by no handler)
    server,     \* the API server: stored configuration, Telegram client, last exchange
    layout,     \* layouts/default.vue: the user menu, the route shown, the logout calls
    useMessages,    \* the refs of the composable useMessages and its requests in flight
    messagesRoute   \* GET /messages/:id: the last query and what was answered

vars == <<state, config, pc, inflight, navigation, last, server, layout,
          useMessages, messagesRoute>>

\* the messages of a chat: the composable and the route
listing == <<useMessages, messagesRoute>>

\* what the login page neither reads nor writes
rest == <<server, layout, listing>>

\* the variables of the login page
page == <<state, config, pc, inflight, navigation, last>>

-----------------------------------------------------------------------------
(* Values *)

\* state.error is string | null
Null == "null"

\* ErrorCode.NEED_TWO_FACTOR_CODE, login.vue:210 and login.vue:589
NEED_TWO_FACTOR_CODE == "NEED_TWO_FACTOR_CODE"

\* the fixed texts the handlers store in state.error
TwoFactorMessage == "TWO_FACTOR_PASSWORD_NEEDED"
SendCodeDefaultMessage == "SEND_CODE_FAILED_RETRY"
VerifyDefaultMessage == "VERIFY_FAILED_RETRY"
PasswordDefaultMessage == "PASSWORD_FAILED_RETRY"

\* what the user may type into the three inputs
PhoneInputs == {"", "+15551234567"}
CodeInputs == {"", "12345", "54321"}
PasswordInputs == {"", "hunter2"}
ApiIdInputs == {"", "611335"}
ApiHashInputs == {"", "d524b414"}

\* the messages of the Errors a useAuth call may throw
FailureMessages == {NEED_TWO_FACTOR_CODE, "PHONE_CODE_INVALID"}

\* an absent option (JavaScript undefined) is the empty tuple, a present one <<v>>
Undefined == << >>
Some(v) == <<v>>

\* Number(s) for the strings of the model: Number("") is 0
NumberOf(s) == IF s = "" THEN 0 ELSE IF s = "611335" THEN 611335 ELSE 94575

-----------------------------------------------------------------------------
(* The configuration getConfig() may load *)

NoConfig == [loaded |-> FALSE, telegram |-> FALSE, apiId |-> "", apiHash |-> "", phoneNumber |-> ""]

Configs ==
    { [loaded |-> TRUE, telegram |-> FALSE, apiId |-> "", apiHash |-> "", phoneNumber |-> ""],
      [loaded |-> TRUE, telegram |-> TRUE, apiId |-> "94575", apiHash |-> "a3406de8", phoneNumber |-> ""],
      [loaded |-> TRUE, telegram |-> TRUE, apiId |-> "94575", apiHash |-> "a3406de8", phoneNumber |-> "+15550000000"] }

-----------------------------------------------------------------------------
(* The outcomes of a useAuth call *)

Resolved(v) == [kind |-> "resolved", value |-> v, message |-> ""]
ThrownError(m) == [kind |-> "Error", value |-> FALSE, message |-> m]
ThrownOther == [kind |-> "other", value |-> FALSE, message |-> ""]

Thrown == {ThrownError(m) : m \in FailureMessages} \cup {ThrownOther}

\* checkStatus(): connected or not, or a throw
StatusOutcomes == {Resolved(TRUE), Resolved(FALSE)} \cup Thrown
\* sendCode(): the resolved value is not read
SendCodeOutcomes == {Resolved(TRUE)} \cup Thrown
\* login(): success flag, or a throw
LoginOutcomes == {Resolved(TRUE), Resolved(FALSE)} \cup Thrown

Outcomes(fn) ==
    CASE fn = "checkLoginStatus" -> StatusOutcomes
      [] fn = "requestVerificationCode" -> SendCodeOutcomes
      [] OTHER -> LoginOutcomes

-----------------------------------------------------------------------------
(* Helper functions of login.vue, as operators on the LoginState s *)

initialState ==
    [ isLoading |-> FALSE, isConnected |-> FALSE, error |-> Null,
      phoneNumber |-> "", verificationCode |-> "", twoFactorPassword |-> "",
      needPhoneNumber |-> TRUE, needCode |-> FALSE, needPassword |-> FALSE,
      showAdvancedSettings |-> FALSE, apiId |-> "", apiHash |-> "" ]

canSubmit(s) ==
    IF s.needPhoneNumber /\ s.phoneNumber = "" THEN FALSE
    ELSE IF s.needCode /\ s.verificationCode = "" THEN FALSE
    ELSE IF s.needPassword /\ s.twoFactorPassword = "" THEN FALSE
    ELSE TRUE

initializeFromConfig(s, c) ==
    IF c.loaded /\ c.telegram
    THEN [s EXCEPT !.apiId = c.apiId,
                   !.apiHash = c.apiHash,
                   !.phoneNumber = IF c.phoneNumber # "" /\ s.phoneNumber = ""
                                   THEN c.phoneNumber ELSE s.phoneNumber]
    ELSE s

NoOptions == [present |-> FALSE, apiId |-> Undefined, apiHash |-> Undefined]

\* mutant: the options are built whether or not the advanced settings are shown
getApiOptionsAlways(s, c) ==
    [ present |-> TRUE,
      apiId |-> IF NumberOf(s.apiId) # 0 THEN Some(NumberOf(s.apiId))
                ELSE IF c.loaded /\ c.telegram /\ c.apiId # ""
                     THEN Some(NumberOf(c.apiId)) ELSE Undefined,
      apiHash |-> IF s.apiHash # "" THEN Some(s.apiHash)
                  ELSE IF c.loaded /\ c.telegram THEN Some(c.apiHash) ELSE Undefined ]

getApiOptions(s, c) ==
    IF ~s.showAdvancedSettings THEN NoOptions
    ELSE [ present |-> TRUE,
           apiId |-> IF NumberOf(s.apiId) # 0 THEN Some(NumberOf(s.apiId))
                     ELSE IF c.loaded /\ c.telegram /\ c.apiId # ""
                          THEN Some(NumberOf(c.apiId)) ELSE Undefined,
           apiHash |-> IF s.apiHash # "" THEN Some(s.apiHash)
                       ELSE IF c.loaded /\ c.telegram THEN Some(c.apiHash) ELSE Undefined ]

handleSuccessfulConnection(s) == [s EXCEPT !.isConnected = TRUE]

\* mutant: sets the flag of the new step and leaves the other flags as they are
updateLoginStepAdditive(s, step) ==
    [s EXCEPT !.needPhoneNumber = @ \/ (step = "phone"),
              !.needCode = @ \/ (step = "code"),
              !.needPassword = @ \/ (step = "password")]

updateLoginStep(s, step) ==
    [s EXCEPT !.needPhoneNumber = (step = "phone"),
              !.needCode = (step = "code"),
              !.needPassword = (step = "password")]

\* mutant: always stores the default text
handleErrorDefaultOnly(s, err, defaultMessage) == [s EXCEPT !.error = defaultMessage]

handleError(s, err, defaultMessage) ==
    IF err.kind = "Error"
    THEN [s EXCEPT !.error = err.message]
    ELSE [s EXCEPT !.error = defaultMessage]

\* mutant: the two-factor signal is handled like any other Error
handleLoginErrorNoTwoFactor(s, err) ==
    IF err.kind = "Error"
    THEN [s EXCEPT !.error = err.message]
    ELSE [s EXCEPT !.error = VerifyDefaultMessage]

handleLoginError(s, err) ==
    IF err.kind = "Error"
    THEN IF err.message = NEED_TWO_FACTOR_CODE
         THEN [updateLoginStep([s EXCEPT !.error = err.message], "password")
                   EXCEPT !.error = TwoFactorMessage]
         ELSE [s EXCEPT !.error = err.message]
    ELSE handleError(s, err, VerifyDefaultMessage)

-----------------------------------------------------------------------------
(* Calls in flight *)

Call(fn, phone, code, password, options) ==
    [fn |-> fn, phoneNumber |-> phone, code |-> code, password |-> password, options |-> options]

\* what is kept of a call while it is in flight: the function that awaits it and
\* the code it submitted (no completion reads the rest of the request)
Pending(call) == Call(call.fn, "", call.code, "", NoOptions)

Remove(seq, i) == [j \in 1..(Len(seq) - 1) |-> IF j < i THEN seq[j] ELSE seq[j + 1]]

NoCall == Call("none", "", "", "", NoOptions)

NoOutcome == [kind |-> "none", value |-> FALSE, message |-> ""]

\* the form step of a LoginState, read as handleLogin reads the flags:
\* needPassword first, then needCode, then needPhoneNumber
FormStep(s) ==
    IF s.needPassword THEN "password"
    ELSE IF s.needCode THEN "code"
    ELSE IF s.needPhoneNumber THEN "phone"
    ELSE "none"

\* the event just handled: which entry point or completion ran, the function it
\* reached, the outcome of the call that resolved, whether isLoading was set and
\* which form step was shown when the event arrived, whether a call was issued,
\* and the call issued or resolved
Event(op, fn, out, busy, issued, call) ==
    [op |-> op, fn |-> fn, out |-> out, busy |-> busy, step |-> FormStep(state),
     issued |-> issued, call |-> call]

\* the page is shown until the redirect timer of handleSuccessfulConnection fires
Mounted == navigation # "left"

-----------------------------------------------------------------------------
(* The API server: createResponse and the state the /auth routes work on *)

INVALID_INPUT == "INVALID_INPUT"
UNKNOWN_ERROR == "UNKNOWN_ERROR"

\* the values of the enum ErrorCode that the routes use
ErrorCodes == {NEED_TWO_FACTOR_CODE, INVALID_INPUT, UNKNOWN_ERROR}

\* a value thrown or handed to createResponse as `error`: nothing, an Error
\* (with its name and message), a string, or a value that is neither
NoError == [kind |-> "none", name |-> "", message |-> ""]
AnError(m) == [kind |-> "Error", name |-> "Error", message |-> m]
AString(m) == [kind |-> "string", name |-> "", message |-> m]
NotAnError == [kind |-> "other", name |-> "", message |-> ""]

\* createResponse(data, error): `if (error)` is false for an absent error and for
\* an empty string; the switch tests Error, then the ErrorCode values, then string
createResponse(data, error) ==
    IF error.kind = "none" \/ (error.kind = "string" /\ error.message = "")
    THEN [success |-> TRUE, data |-> data, error |-> "", code |-> ""]
    ELSE IF error.kind = "Error"
    THEN [success |-> FALSE, data |-> Undefined, error |-> error.message, code |-> error.name]
    ELSE IF error.kind = "string" /\ error.message \in ErrorCodes
    THEN [success |-> FALSE, data |-> Undefined, error |-> error.message, code |-> error.message]
    ELSE IF error.kind = "string"
    THEN [success |-> FALSE, data |-> Undefined, error |-> error.message, code |-> UNKNOWN_ERROR]
    ELSE [success |-> FALSE, data |-> Undefined, error |-> "Unknown error", code |-> UNKNOWN_ERROR]

\* `error instanceof Error ? error : new Error(defaultMessage)` of the routes' catch
AsError(error, defaultMessage) ==
    IF error.kind = "Error" THEN error ELSE AnError(defaultMessage)

\* the data of the success responses of /send-code, /login and /logout
SuccessData == Some("success")

\* a request: the route and the fields of its body, absent ones undefined
Request(route, phoneNumber, apiId, apiHash, code, password) ==
    [route |-> route, phoneNumber |-> phoneNumber, apiId |-> apiId, apiHash |-> apiHash,
     code |-> code, password |-> password]

NoRequest == Request("none", Undefined, Undefined, Undefined, Undefined, Undefined)

\* JavaScript truthiness of an optional string and of an optional number
TruthyString(x) == x # Undefined /\ x[1] # ""
TruthyNumber(x) == x # Undefined /\ x[1] # 0

\* config.api.telegram as the server stores it
Telegram(apiId, apiHash, phoneNumber) ==
    [apiId |-> apiId, apiHash |-> apiHash, phoneNumber |-> phoneNumber]

NoResponse == [success |-> FALSE, data |-> Undefined, error |-> "", code |-> ""]

\* the server between requests: the stored configuration and whether the
\* Telegram client holds a connected session; and, of the last request handled
\* (observation only), the request, the response, the client methods that were
\* called, whether the account asked for its password during connect, and
\* whether connect completed without error
ServerStart(telegram, connected) ==
    [telegram |-> telegram, connected |-> connected, request |-> NoRequest,
     response |-> NoResponse, called |-> {}, asked |-> FALSE, completed |-> FALSE]

\* the server after a request: what the handler stored and what it returned
Handle(s, request, telegram, connected, response, called, asked, completed) ==
    [s EXCEPT !.request = request, !.telegram = telegram, !.connected = connected,
              !.response = response, !.called = called, !.asked = asked,
              !.completed = completed]

StoredTelegrams ==
    { Telegram("94575", "a3406de8", ""), Telegram("94575", "a3406de8", "+15550000000") }

\* the default layout after setup: the menu closed, no logout call made.
\* isConnected is the flag of useSession; calls holds, oldest first, the logout
\* calls awaited, each with the response of the server once there is one;
\* toast and answer tell of the last logout call that resolved
LayoutStart(isConnected) ==
    [isConnected |-> isConnected, showUserMenu |-> FALSE, route |-> "/",
     toast |-> "none", calls |-> << >>, answer |-> NoResponse]

\* the chats of the model
Chats == {"chat 1", "chat 2"}

\* a request of loadMessages: the chat asked for, its number in the order of
\* the calls, and the numbers of the requests in flight when it was issued
NoLoad == [chatId |-> "none", id |-> 0, overlaps |-> {}]

\* useMessages(): messages = [], total = 0, chat undefined, nothing requested.
\* calls holds the requests in flight, oldest first; issued counts the calls of
\* loadMessages; settled, done and threw are observations: the requests that
\* resolved with what they resolved to, the last of them, and whether
\* loadMessages ever rejected
useMessagesStart ==
    [messages |-> << >>, total |-> 0, chat |-> Undefined, calls |-> << >>,
     issued |-> 0, settled |-> {}, done |-> [call |-> NoLoad, data |-> Undefined],
     threw |-> FALSE]

\* the messages route before any request
NoListing == [query |-> [limit |-> Undefined, offset |-> Undefined], total |-> 0,
              failed |-> FALSE, response |-> NoResponse, pagination |-> Undefined]

-----------------------------------------------------------------------------
Init ==
    /\ server = ServerStart(Telegram("94575", "a3406de8", ""), FALSE)
    /\ layout = LayoutStart(FALSE)
    /\ useMessages = useMessagesStart
    /\ messagesRoute = NoListing
    /\ state = initialState
    /\ config = NoConfig
    /\ pc = "getConfig"
    /\ inflight = << >>
    /\ navigation = "none"
    /\ last = Event("onMounted", "initializeLoginPage", NoOutcome, FALSE, FALSE, NoCall)

\* checkLoginStatus up to `await checkStatus()`; it tests no guard
checkLoginStatus(s) == [s EXCEPT !.isLoading = TRUE, !.error = Null]

\* initializeLoginPage after `await getConfig()`: initializeFromConfig, then
\* checkLoginStatus up to its await. isLoading is not set while getConfig() is
\* awaited, so the form can be used before this step
initializeLoginPage ==
    /\ Mounted
    /\ pc = "getConfig"
    /\ \E c \in Configs :
        /\ config' = c
        /\ state' = checkLoginStatus(initializeFromConfig(state, c))
    /\ inflight' = Append(inflight, Pending(Call("checkLoginStatus", "", "", "", NoOptions)))
    /\ pc' = "done"
    /\ last' = Event("getConfigResolved", "checkLoginStatus", NoOutcome, state.isLoading, TRUE,
                     Call("checkLoginStatus", "", "", "", NoOptions))
    /\ UNCHANGED navigation

-----------------------------------------------------------------------------
(* The submit entry point and the three functions it routes to, each up to its *)
(* await; Issue is the common part: the guard, isLoading, error, the call.     *)
(* The entry points are taken as callable whenever the page is shown: the      *)
(* guards are those of the functions, not the disabled state of the button.    *)

\* mutant: the guard without the isLoading test
EarlyReturnIgnoresLoading(field) == field = ""

\* mutant: the guard without the empty-field test
EarlyReturnIgnoresEmpty(field) == state.isLoading

\* the early return `if (!field || isLoading) return`
EarlyReturn(field) == field = "" \/ state.isLoading

Begin(s) == [s EXCEPT !.isLoading = TRUE, !.error = Null]

Issue(fn, field, call) ==
    /\ IF EarlyReturn(field)
       THEN /\ UNCHANGED <<state, inflight>>
            /\ last' = Event("handleLogin", fn, NoOutcome, state.isLoading, FALSE, NoCall)
       ELSE /\ state' = Begin(state)
            /\ inflight' = Append(inflight, Pending(call))
            /\ last' = Event("handleLogin", fn, NoOutcome, state.isLoading, TRUE, call)
    /\ UNCHANGED <<config, pc, navigation>>

requestVerificationCode ==
    Issue("requestVerificationCode", state.phoneNumber,
          Call("requestVerificationCode", state.phoneNumber, "", "",
               getApiOptions(state, config)))

submitVerificationCode ==
    Issue("submitVerificationCode", state.verificationCode,
          Call("submitVerificationCode", state.phoneNumber, state.verificationCode, "",
               getApiOptions(state, config)))

submitTwoFactorPassword ==
    Issue("submitTwoFactorPassword", state.twoFactorPassword,
          Call("submitTwoFactorPassword", "", state.verificationCode, state.twoFactorPassword,
               getApiOptions(state, config)))

\* mutant: the flags are tested in the order phone, code, password
handleLoginPhoneFirst ==
    /\ Mounted
    /\ \/ state.needPhoneNumber /\ requestVerificationCode
       \/ ~state.needPhoneNumber /\ state.needCode /\ submitVerificationCode
       \/ ~state.needPhoneNumber /\ ~state.needCode /\ state.needPassword
            /\ submitTwoFactorPassword
       \/ /\ ~state.needPassword /\ ~state.needCode /\ ~state.needPhoneNumber
          /\ last' = Event("handleLogin", "none", NoOutcome, state.isLoading, FALSE, NoCall)
          /\ UNCHANGED <<state, config, pc, inflight, navigation>>

handleLogin ==
    /\ Mounted
    /\ \/ state.needPassword /\ submitTwoFactorPassword
       \/ ~state.needPassword /\ state.needCode /\ submitVerificationCode
       \/ ~state.needPassword /\ ~state.needCode /\ state.needPhoneNumber
            /\ requestVerificationCode
       \/ /\ ~state.needPassword /\ ~state.needCode /\ ~state.needPhoneNumber
          /\ last' = Event("handleLogin", "none", NoOutcome, state.isLoading, FALSE, NoCall)
          /\ UNCHANGED <<state, config, pc, inflight, navigation>>

-----------------------------------------------------------------------------
(* The other entry points and the inputs bound with v-model *)

\* mutant: the code field is not reset
retryLoginKeepsCode(s) ==
    [s EXCEPT !.error = Null, !.phoneNumber = "", !.twoFactorPassword = "",
              !.needPhoneNumber = TRUE, !.needCode = FALSE, !.needPassword = FALSE]

\* mutant: the flags of the later steps are not reset
retryLoginKeepsStep(s) ==
    [s EXCEPT !.error = Null, !.phoneNumber = "", !.verificationCode = "",
              !.twoFactorPassword = "", !.needPhoneNumber = TRUE]

retryLoginState(s) ==
    [s EXCEPT !.error = Null, !.phoneNumber = "", !.verificationCode = "",
              !.twoFactorPassword = "", !.needPhoneNumber = TRUE,
              !.needCode = FALSE, !.needPassword = FALSE]

retryLogin ==
    /\ Mounted
    /\ state' = retryLoginState(state)
    /\ last' = Event("retryLogin", "retryLogin", NoOutcome, state.isLoading, FALSE, NoCall)
    /\ UNCHANGED <<config, pc, inflight, navigation>>

toggleAdvancedSettings ==
    /\ Mounted
    /\ state' = [state EXCEPT !.showAdvancedSettings = ~state.showAdvancedSettings]
    /\ last' = Event("toggleAdvancedSettings", "toggleAdvancedSettings", NoOutcome,
                     state.isLoading, FALSE, NoCall)
    /\ UNCHANGED <<config, pc, inflight, navigation>>

\* an input exists only while its v-if holds, inside the form shown when
\* state.isConnected is false
Input(field, shown, values) ==
    /\ Mounted
    /\ ~state.isConnected
    /\ shown
    /\ \E v \in values : state' = [state EXCEPT ![field] = v]
    /\ last' = Event("input", field, NoOutcome, state.isLoading, FALSE, NoCall)
    /\ UNCHANGED <<config, pc, inflight, navigation>>

inputPhoneNumber == Input("phoneNumber", state.needPhoneNumber, PhoneInputs)
inputVerificationCode == Input("verificationCode", state.needCode, CodeInputs)
inputTwoFactorPassword == Input("twoFactorPassword", state.needPassword, PasswordInputs)
inputApiId == Input("apiId", state.showAdvancedSettings, ApiIdInputs)
inputApiHash == Input("apiHash", state.showAdvancedSettings, ApiHashInputs)

-----------------------------------------------------------------------------
(* Completions: the part of each async function after its await, with the      *)
(* catch and finally blocks                                                     *)

\* mutant: the finally block is missing
FinallyKeepsLoading(s) == s

Finally(s) == [s EXCEPT !.isLoading = FALSE]

\* mutant: a failed status check is reported like a failed submit
checkLoginStatusDoneReportsThrow(s, out) ==
    Finally(IF out.kind = "resolved"
            THEN [s EXCEPT !.isConnected = out.value]
            ELSE handleError(s, out, VerifyDefaultMessage))

checkLoginStatusDone(s, out) ==
    Finally(IF out.kind = "resolved"
            THEN IF out.value
                 THEN handleSuccessfulConnection([s EXCEPT !.isConnected = out.value])
                 ELSE [s EXCEPT !.isConnected = out.value]
            ELSE s)

requestVerificationCodeDone(s, out) ==
    Finally(IF out.kind = "resolved"
            THEN updateLoginStep(s, "code")
            ELSE handleError(s, out, SendCodeDefaultMessage))

submitVerificationCodeDone(s, out) ==
    Finally(IF out.kind = "resolved"
            THEN IF out.value
                 THEN [handleSuccessfulConnection(s) EXCEPT !.needCode = FALSE]
                 ELSE s
            ELSE handleLoginError(s, out))

submitTwoFactorPasswordDone(s, out) ==
    Finally(IF out.kind = "resolved"
            THEN IF out.value
                 THEN updateLoginStep(handleSuccessfulConnection(s), "complete")
                 ELSE s
            ELSE handleError(s, out, PasswordDefaultMessage))

Done(fn, s, out) ==
    CASE fn = "checkLoginStatus" -> checkLoginStatusDone(s, out)
      [] fn = "requestVerificationCode" -> requestVerificationCodeDone(s, out)
      [] fn = "submitVerificationCode" -> submitVerificationCodeDone(s, out)
      [] fn = "submitTwoFactorPassword" -> submitTwoFactorPasswordDone(s, out)

\* handleSuccessfulConnection ran: the call resolved with a true value
Connects(out) == out.kind = "resolved" /\ out.value

Resolve(fn) ==
    /\ Mounted
    /\ \E i \in DOMAIN inflight :
        /\ inflight[i].fn = fn
        /\ \E out \in Outcomes(fn) :
            /\ state' = Done(fn, state, out)
            /\ navigation' = IF Connects(out) /\ fn # "requestVerificationCode"
                             THEN "scheduled" ELSE navigation
            /\ last' = Event("resolved", fn, out, state.isLoading, FALSE, inflight[i])
        /\ inflight' = Remove(inflight, i)
    /\ UNCHANGED <<config, pc>>

resolveCheckStatus == Resolve("checkLoginStatus")
resolveSendCode == Resolve("requestVerificationCode")
resolveCodeLogin == Resolve("submitVerificationCode")
resolvePasswordLogin == Resolve("submitTwoFactorPassword")

\* the setTimeout of handleSuccessfulConnection fires: router.push(returnPath)
\* leaves the page and the LoginState is discarded
redirect ==
    /\ navigation = "scheduled"
    /\ navigation' = "left"
    /\ last' = Event("redirect", "handleSuccessfulConnection", NoOutcome, state.isLoading,
                     FALSE, NoCall)
    /\ UNCHANGED <<state, config, pc, inflight>>

-----------------------------------------------------------------------------
Next ==
    \/ inputPhoneNumber /\ UNCHANGED rest
    \/ inputVerificationCode /\ UNCHANGED rest
    \/ inputTwoFactorPassword /\ UNCHANGED rest
    \/ inputApiId /\ UNCHANGED rest
    \/ inputApiHash /\ UNCHANGED rest
    \/ handleLogin /\ UNCHANGED rest
    \/ toggleAdvancedSettings /\ UNCHANGED rest
    \/ retryLogin /\ UNCHANGED rest
    \/ resolveSendCode /\ UNCHANGED rest
    \/ resolveCodeLogin /\ UNCHANGED rest
    \/ resolvePasswordLogin /\ UNCHANGED rest
    \/ resolveCheckStatus /\ UNCHANGED rest
    \/ initializeLoginPage /\ UNCHANGED rest
    \/ redirect /\ UNCHANGED rest

Spec == Init /\ [][Next]_vars

-----------------------------------------------------------------------------
(* The routes of the API server under /auth, one request at a time.  The   *)
(* body is the JSON object readBody returned and useTelegramClient has     *)
(* returned the client; what the client's methods do is the environment's. *)

\* the bodies a client may post to /send-code and to /login
PostedPhoneNumbers == {Undefined, Some("+15551234567")}
PostedApiIds == {Undefined, Some(0), Some(611335)}
PostedApiHashes == {Undefined, Some(""), Some("d524b414")}
PostedCodes == {Undefined, Some(""), Some("12345")}
PostedPasswords == {Undefined, Some(""), Some("hunter2")}

\* sendCodeSchema.parse(body) passes: phoneNumber is a string, the rest optional
sendCodeSchema(body) == body.phoneNumber # Undefined

\* what sendCodeSchema.parse throws otherwise
ZodError == [kind |-> "Error", name |-> "ZodError", message |-> "Required"]

\* the messages of the model that include 'password required'
PasswordRequiredMessages == {"2FA password required", "Account password required"}

\* what a method of the Telegram client may throw
ClientErrors ==
    { AnError("PHONE_CODE_INVALID"), AnError("PASSWORD_HASH_INVALID"),
      AnError("Account password required"), NotAnError }

\* POST /send-code with the given body; fault is what client.sendCode() throws
sendCode(s, body, fault) ==
    LET request == Request("send-code", body.phoneNumber, body.apiId, body.apiHash,
                           Undefined, Undefined)
        caught(error) == createResponse(Undefined, AsError(error, "Failed to send code"))
        telegram == IF TruthyNumber(body.apiId) /\ TruthyString(body.apiHash)
                    THEN Telegram(ToString(body.apiId[1]), body.apiHash[1], body.phoneNumber[1])
                    ELSE s.telegram
    IN  IF ~sendCodeSchema(body)
        THEN Handle(s, request, s.telegram, s.connected, caught(ZodError), {}, FALSE, FALSE)
        ELSE IF s.connected
        THEN Handle(s, request, s.telegram, s.connected,
                    createResponse(SuccessData, NoError), {"isConnected"}, FALSE, FALSE)
        ELSE IF fault # NoError
        THEN Handle(s, request, telegram, s.connected, caught(fault),
                    {"isConnected", "sendCode"}, FALSE, FALSE)
        ELSE Handle(s, request, telegram, s.connected,
                    createResponse(SuccessData, NoError),
                    {"isConnected", "sendCode"}, FALSE, FALSE)

sendCodeRoute ==
    \E phoneNumber \in PostedPhoneNumbers, apiId \in PostedApiIds,
       apiHash \in PostedApiHashes, fault \in ClientErrors \cup {NoError} :
        server' = sendCode(server,
                           [phoneNumber |-> phoneNumber, apiId |-> apiId, apiHash |-> apiHash],
                           fault)

\* the password callback of a login with a code: what it throws, if anything
passwordCallback(password) ==
    IF ~TruthyString(password) THEN AnError("2FA password required") ELSE NoError

\* client.connect: what it throws, NoError when it completes.  asked: the
\* account has a password, so connect calls the password callback; what the
\* callback throws, connect throws; fault is what connect throws by itself
connect(callback, asked, fault) ==
    IF asked /\ callback # NoError THEN callback ELSE fault

\* the test of the inner catch of /login
IsTwoFactorErrorNever(error) == FALSE

IsTwoFactorError(error) ==
    error.kind = "Error" /\ error.message \in PasswordRequiredMessages

\* POST /login with the given body
login(s, body, asked, fault) ==
    LET request == Request("login", Undefined, Undefined, Undefined, body.code, body.password)
        caught(error) == createResponse(Undefined, AsError(error, "Login failed"))
        connected(thrown) ==
            Handle(s, request, s.telegram, thrown = NoError \/ s.connected,
                   IF thrown = NoError THEN createResponse(SuccessData, NoError)
                   ELSE caught(thrown),
                   {"connect"}, asked, thrown = NoError)
    IN  IF TruthyString(body.code)
        THEN LET thrown == connect(passwordCallback(body.password), asked, fault)
             IN  IF thrown # NoError /\ IsTwoFactorError(thrown)
                 THEN Handle(s, request, s.telegram, s.connected,
                             createResponse(Undefined, AString(NEED_TWO_FACTOR_CODE)),
                             {"connect"}, asked, FALSE)
                 ELSE connected(thrown)
        ELSE IF TruthyString(body.password)
        THEN connected(connect(NoError, asked, fault))
        ELSE Handle(s, request, s.telegram, s.connected,
                    createResponse(Undefined, AString(INVALID_INPUT)), {}, FALSE, FALSE)

loginRoute ==
    \E code \in PostedCodes, password \in PostedPasswords, asked \in BOOLEAN,
       fault \in ClientErrors \cup {NoError} :
        server' = login(server, [code |-> code, password |-> password], asked, fault)

InitServer ==
    /\ server \in {ServerStart(telegram, connected) :
                        telegram \in StoredTelegrams, connected \in BOOLEAN}
    /\ layout = LayoutStart(FALSE)
    /\ useMessages = useMessagesStart
    /\ messagesRoute = NoListing
    /\ state = initialState
    /\ config = NoConfig
    /\ pc = "getConfig"
    /\ inflight = << >>
    /\ navigation = "none"
    /\ last = Event("onMounted", "initializeLoginPage", NoOutcome, FALSE, FALSE, NoCall)

NextServer ==
    \/ sendCodeRoute /\ UNCHANGED <<page, layout, listing>>
    \/ loginRoute /\ UNCHANGED <<page, layout, listing>>

SpecServer == InitServer /\ [][NextServer]_vars

-----------------------------------------------------------------------------
(* Logging out: handleLogout of the default layout, the logout call of     *)
(* useAuth, and the /logout route that answers it.                         *)

\* the logout calls one session of the layout makes
MaxLogouts == 2

\* POST /logout.  faultIsConnected and faultLogout are what client.isConnected()
\* and client.logout() throw; a logout that completed has cleared the session,
\* one that threw leaves the client connected or not (after)
logout(s, faultIsConnected, faultLogout, after) ==
    LET request == Request("logout", Undefined, Undefined, Undefined, Undefined, Undefined)
        caught(error) == createResponse(Undefined, AsError(error, "Logout failed"))
    IN  IF faultIsConnected # NoError
        THEN Handle(s, request, s.telegram, s.connected, caught(faultIsConnected),
                    {"isConnected"}, FALSE, FALSE)
        ELSE IF ~s.connected
        THEN Handle(s, request, s.telegram, s.connected,
                    createResponse(SuccessData, NoError), {"isConnected"}, FALSE, TRUE)
        ELSE IF faultLogout # NoError
        THEN Handle(s, request, s.telegram, after, caught(faultLogout),
                    {"isConnected", "logout"}, FALSE, FALSE)
        ELSE Handle(s, request, s.telegram, FALSE,
                    createResponse(SuccessData, NoError),
                    {"isConnected", "logout"}, FALSE, TRUE)

\* the first logout call not answered yet, 0 if there is none
Unanswered(calls) ==
    IF \E i \in DOMAIN calls : calls[i] = Undefined
    THEN CHOOSE i \in DOMAIN calls :
            calls[i] = Undefined /\ \A j \in 1..(i - 1) : calls[j] # Undefined
    ELSE 0

\* the server handles the oldest logout request
logoutRoute ==
    /\ Unanswered(layout.calls) # 0
    /\ \E faultIsConnected \in ClientErrors \cup {NoError},
          faultLogout \in ClientErrors \cup {NoError}, after \in BOOLEAN :
        /\ server' = logout(server, faultIsConnected, faultLogout, after)
        /\ layout' = [layout EXCEPT
                         !.calls[Unanswered(layout.calls)] = Some(server'.response)]

\* the avatar button and the click outside the menu
toggleUserMenu ==
    /\ layout.isConnected
    /\ layout' = [layout EXCEPT !.showUserMenu = ~layout.showUserMenu]
    /\ UNCHANGED server

closeMenu ==
    /\ layout.isConnected /\ layout.showUserMenu
    /\ layout' = [layout EXCEPT !.showUserMenu = FALSE]
    /\ UNCHANGED server

\* handleLogout up to `await logout()`; the button is in the open menu
handleLogout ==
    /\ layout.isConnected /\ layout.showUserMenu
    /\ Len(layout.calls) < MaxLogouts
    /\ layout' = [layout EXCEPT !.calls = Append(@, Undefined)]
    /\ UNCHANGED server

\* mutant: navigates whatever logout() returned
handleLogoutDoneAlwaysLeaves(l, success) ==
    [l EXCEPT !.toast = "success", !.showUserMenu = FALSE, !.route = "/login"]

\* handleLogout after `await logout()`
handleLogoutDone(l, success) ==
    IF success
    THEN [l EXCEPT !.toast = "success", !.showUserMenu = FALSE, !.route = "/login"]
    ELSE [l EXCEPT !.toast = "error"]

\* logout() of useAuth resolves: true for a success response, false for an error
\* response or a request that failed
resolveLogout ==
    \E i \in DOMAIN layout.calls, failed \in BOOLEAN :
        LET answer == IF failed \/ layout.calls[i] = Undefined
                      THEN NoResponse ELSE layout.calls[i][1]
        IN  /\ failed \/ layout.calls[i] # Undefined
            /\ layout' = [handleLogoutDone(layout, answer.success) EXCEPT
                             !.calls = Remove(layout.calls, i), !.answer = answer]
            /\ UNCHANGED server

InitLogout ==
    /\ server \in {ServerStart(telegram, connected) :
                        telegram \in StoredTelegrams, connected \in BOOLEAN}
    /\ layout = LayoutStart(TRUE)
    /\ useMessages = useMessagesStart
    /\ messagesRoute = NoListing
    /\ state = initialState
    /\ config = NoConfig
    /\ pc = "getConfig"
    /\ inflight = << >>
    /\ navigation = "none"
    /\ last = Event("onMounted", "initializeLoginPage", NoOutcome, FALSE, FALSE, NoCall)

NextLogout ==
    \/ toggleUserMenu /\ UNCHANGED <<page, listing>>
    \/ closeMenu /\ UNCHANGED <<page, listing>>
    \/ handleLogout /\ UNCHANGED <<page, listing>>
    \/ logoutRoute /\ UNCHANGED <<page, listing>>
    \/ resolveLogout /\ UNCHANGED <<page, listing>>

SpecLogout == InitLogout /\ [][NextLogout]_vars

-----------------------------------------------------------------------------
(* useMessages: loadMessages and the completions of its requests *)

\* the calls of loadMessages in one session, and the messages a chat may hold
MaxLoads == 3
MaxMessages == 2

\* what GET /messages/:id answers for a chat that holds n messages; the items
\* stand for the n messages of that chat
Data(chatId, n) == [items |-> <<chatId, n>>, chat |-> Some(chatId), total |-> n]

\* loadMessages up to `await request(...)`
loadMessages ==
    /\ useMessages.issued < MaxLoads
    /\ \E chatId \in Chats :
        useMessages' = [useMessages EXCEPT
            !.issued = @ + 1,
            !.calls = Append(@, [chatId |-> chatId, id |-> useMessages.issued + 1,
                                 overlaps |-> {useMessages.calls[i].id :
                                                 i \in DOMAIN useMessages.calls}])]
    /\ UNCHANGED messagesRoute

\* loadMessages after the await: the three assignments, or the catch, which
\* logs; data is undefined when request() threw
loadMessagesDone(u, data) ==
    IF data # Undefined
    THEN [u EXCEPT !.messages = data[1].items, !.total = data[1].total,
                   !.chat = data[1].chat]
    ELSE u

\* a request of loadMessages resolves, in any order, with data or by throwing
resolveLoadMessages ==
    /\ \E i \in DOMAIN useMessages.calls :
       \E data \in {Undefined} \cup
                   {Some(Data(useMessages.calls[i].chatId, n)) : n \in 0..MaxMessages} :
        LET done == [call |-> useMessages.calls[i], data |-> data]
        IN  useMessages' = [loadMessagesDone(useMessages, data) EXCEPT
                !.calls = Remove(useMessages.calls, i),
                !.settled = @ \cup {done},
                !.done = done]
    /\ UNCHANGED messagesRoute

InitMessages ==
    /\ useMessages = useMessagesStart
    /\ messagesRoute = NoListing
    /\ server = ServerStart(Telegram("94575", "a3406de8", ""), FALSE)
    /\ layout = LayoutStart(FALSE)
    /\ state = initialState
    /\ config = NoConfig
    /\ pc = "getConfig"
    /\ inflight = << >>
    /\ navigation = "none"
    /\ last = Event("onMounted", "initializeLoginPage", NoOutcome, FALSE, FALSE, NoCall)

NextMessages ==
    \/ loadMessages /\ UNCHANGED <<page, server, layout>>
    \/ resolveLoadMessages /\ UNCHANGED <<page, server, layout>>

SpecMessages == InitMessages /\ [][NextMessages]_vars

-----------------------------------------------------------------------------
(* GET /messages/:id: the query, the pagination block, the response *)

\* the largest limit and offset a query names and the most messages the
\* database reports
MaxLimit == 3
MaxOffset == 6
MaxTotal == 7

\* the defaults of the destructuring of getQuery(event)
DefaultLimit == "50"
DefaultOffset == "0"

\* Number(s) of a string of decimal digits
Number(s) == CHOOSE n \in 0..50 : ToString(n) = s

\* Math.floor(a / b) and Math.ceil(a / b) of integers a >= 0, b >= 1
Floor(a, b) == a \div b
Ceil(a, b) == IF a % b = 0 THEN a \div b ELSE (a \div b) + 1

\* mutant: pages counted from 0
paginationFromZero(limit, offset, total) ==
    [total |-> total, page |-> Floor(Number(offset), Number(limit)),
     pageSize |-> Number(limit), totalPages |-> Ceil(total, Number(limit))]

\* the third argument of createResponse
pagination(limit, offset, total) ==
    [total |-> total, page |-> Floor(Number(offset), Number(limit)) + 1,
     pageSize |-> Number(limit), totalPages |-> Ceil(total, Number(limit))]

\* the handler: query holds limit and offset as given, total is what
\* findMessagesByChatId reports, failed whether the database threw
messages(query, total, failed) ==
    LET limit == IF query.limit = Undefined THEN DefaultLimit ELSE query.limit[1]
        offset == IF query.offset = Undefined THEN DefaultOffset ELSE query.offset[1]
    IN  IF failed
        THEN [query |-> query, total |-> total, failed |-> TRUE,
              response |-> createResponse(Undefined, AnError("Failed to get messages")),
              pagination |-> Undefined]
        ELSE [query |-> query, total |-> total, failed |-> FALSE,
              response |-> createResponse(Some("items"), NoError),
              pagination |-> Some(pagination(limit, offset, total))]

getMessages ==
    \E limit \in {Undefined} \cup {Some(ToString(n)) : n \in 1..MaxLimit},
       offset \in {Undefined} \cup {Some(ToString(n)) : n \in 0..MaxOffset},
       total \in 0..MaxTotal, failed \in BOOLEAN :
        /\ messagesRoute' = messages([limit |-> limit, offset |-> offset], total, failed)
        /\ UNCHANGED useMessages

InitListing == InitMessages

NextListing == getMessages /\ UNCHANGED <<page, server, layout>>

SpecListing == InitListing /\ [][NextListing]_vars

-----------------------------------------------------------------------------
(* handleLogin as a function of the LoginState alone: the page after its        *)
(* initialisation with any combination of the three form flags (stale flags,   *)
(* which the flow from Init never produces), of the fields and of isLoading    *)

DispatchStates ==
    { [initialState EXCEPT !.needPhoneNumber = f[1], !.needCode = f[2],
                           !.needPassword = f[3], !.isLoading = f[4],
                           !.phoneNumber = x[1], !.verificationCode = x[2],
                           !.twoFactorPassword = x[3]] :
        f \in BOOLEAN \X BOOLEAN \X BOOLEAN \X BOOLEAN,
        x \in PhoneInputs \X CodeInputs \X PasswordInputs }

InitDispatch ==
    /\ server = ServerStart(Telegram("94575", "a3406de8", ""), FALSE)
    /\ layout = LayoutStart(FALSE)
    /\ useMessages = useMessagesStart
    /\ messagesRoute = NoListing
    /\ state \in DispatchStates
    /\ config \in Configs
    /\ pc = "done"
    /\ inflight = << >>
    /\ navigation = "none"
    /\ last = Event("onMounted", "initializeLoginPage", NoOutcome, FALSE, FALSE, NoCall)

NextDispatch == handleLogin /\ UNCHANGED rest

SpecDispatch == InitDispatch /\ [][NextDispatch]_vars
-----------------------------------------------------------------------------
(* Properties *)

\* the step that is an event of the given kind
Handled(op) == last'.op = op

\* the step that is the completion of a call awaited by fn
Completed(fn) == last'.op = "resolved" /\ last'.fn = fn

StepFlags == {"needPhoneNumber", "needCode", "needPassword", "isConnected"}

FlagsSet(s) == {f \in StepFlags : s[f]}

\* C1: in every reachable state exactly one of needPhoneNumber, needCode,
\* needPassword, isConnected is true
C1_ExactlyOneStepFlag == Cardinality(FlagsSet(state)) = 1

\* C2: at most one useAuth call (sendCode, login, checkStatus) is outstanding at
\* any time
C2_AtMostOneOutstanding == Len(inflight) <= 1

\* C3: a submit that arrives while isLoading is true issues no call and changes
\* nothing of the LoginState; a submit that is accepted issues exactly one call and
\* sets isLoading, so that a second submit right after it is ignored
C3_BusySubmitIgnored ==
    [][ /\ (Handled("handleLogin") /\ state.isLoading)
            => (state' = state /\ inflight' = inflight /\ ~last'.issued)
        /\ (Handled("handleLogin") /\ last'.issued)
            => (Len(inflight') = Len(inflight) + 1 /\ state'.isLoading) ]_vars

\* a second submit arrived while the call of the first was the only one in flight,
\* with the step's field filled in, and was ignored
C3_Witness ==
    /\ last.op = "handleLogin"
    /\ last.busy
    /\ ~last.issued
    /\ canSubmit(state)
    /\ Len(inflight) = 1
    /\ inflight[1].fn = last.fn

\* C4: a submit in the phone, code or password step whose field is empty issues
\* no call and changes nothing of the LoginState (step flags, isLoading, error)
C4_EmptySubmitIgnored ==
    [][ (Handled("handleLogin") /\ FormStep(state) # "none" /\ ~canSubmit(state))
            => (state' = state /\ inflight' = inflight /\ ~last'.issued) ]_vars

\* the password form was submitted with an empty password while nothing was loading
C4_Witness ==
    /\ last.op = "handleLogin"
    /\ last.fn = "submitTwoFactorPassword"
    /\ ~last.busy
    /\ ~last.issued
    /\ state.needPassword
    /\ state.twoFactorPassword = ""
    /\ state.verificationCode # ""

\* C5: once isConnected is true it stays true: no completion and no user action
\* sets it back to false
C5_ConnectedIsTerminal == [][state.isConnected => state'.isConnected]_vars

\* the completion of a code login that failed with the two-factor signal
TwoFactorRequired == ThrownError(NEED_TWO_FACTOR_CODE)

CodeLoginNeedsPassword ==
    Completed("submitVerificationCode") /\ last'.out = TwoFactorRequired

\* C6 as stated: after a code login failed with the two-factor signal the password
\* step is shown, verificationCode is the code that was submitted and error is the
\* fixed message
C6_CodeKeptAsSubmitted ==
    (last.op = "resolved" /\ last.fn = "submitVerificationCode" /\ last.out = TwoFactorRequired)
        => /\ FlagsSet(state) \ {"isConnected"} = {"needPassword"}
           /\ state.verificationCode = last.call.code
           /\ state.error = TwoFactorMessage

\* C6 as amended: the completion of a code login that failed with the two-factor
\* signal shows the password step, leaves verificationCode as it stood when the
\* call resolved and sets error to the fixed, non-empty message
C6_TwoFactorToPassword ==
    [][ CodeLoginNeedsPassword
            => /\ FlagsSet(state') \ {"isConnected"} = {"needPassword"}
               /\ state'.verificationCode = state.verificationCode
               /\ state'.error = TwoFactorMessage
               /\ state'.error \notin {Null, ""} ]_vars

\* a code login failed with the two-factor signal while the code field still held
\* the submitted code, and the password step is shown
C6_Witness ==
    /\ last.op = "resolved"
    /\ last.fn = "submitVerificationCode"
    /\ last.out = TwoFactorRequired
    /\ last.step = "code"
    /\ state.needPassword
    /\ state.verificationCode = last.call.code
    /\ state.verificationCode # ""

\* C7: the completion of a sendCode call that succeeded shows the code step
\* (needCode true, needPhoneNumber and needPassword false) and leaves phoneNumber
\* as it was
C7_SendCodeToCode ==
    [][ (Completed("requestVerificationCode") /\ last'.out.kind = "resolved")
            => /\ FlagsSet(state') \ {"isConnected"} = {"needCode"}
               /\ state'.phoneNumber = state.phoneNumber ]_vars

\* sendCode succeeded for the phone number typed in the phone step
C7_Witness ==
    /\ last.op = "resolved"
    /\ last.fn = "requestVerificationCode"
    /\ last.out.kind = "resolved"
    /\ last.step = "phone"
    /\ state.needCode
    /\ state.phoneNumber = "+15551234567"

\* C8: after a login call issued from the code step or the password step resolved
\* with success, isConnected is true and the three form flags are false
C8_LoginSuccessConnected ==
    (/\ last.op = "resolved"
     /\ last.fn \in {"submitVerificationCode", "submitTwoFactorPassword"}
     /\ Connects(last.out))
        => FlagsSet(state) = {"isConnected"}

\* C9: retryLogin from a state that is not connected empties the three fields,
\* clears error, shows the phone step and issues no call
C9_RestartToPhone ==
    [][ (Handled("retryLogin") /\ ~state.isConnected)
            => /\ state'.phoneNumber = ""
               /\ state'.verificationCode = ""
               /\ state'.twoFactorPassword = ""
               /\ state'.error = Null
               /\ FlagsSet(state') = {"needPhoneNumber"}
               /\ inflight' = inflight
               /\ ~last'.issued ]_vars

\* retryLogin ran in the password step while a login call was in flight
C9_Witness ==
    /\ last.op = "retryLogin"
    /\ last.step = "password"
    /\ last.busy
    /\ inflight # << >>
    /\ state.needPhoneNumber
    /\ ~state.isConnected

\* the step in which handleLogin reaches the function fn
IssuingStep(fn) ==
    CASE fn = "requestVerificationCode" -> "phone"
      [] fn = "submitVerificationCode" -> "code"
      [] fn = "submitTwoFactorPassword" -> "password"
      [] OTHER -> "none"

\* what the catch block of fn stores for a failure: the Error's message, or the
\* default text of fn for a thrown value that is no Error
FailureText(fn, out) ==
    IF out.kind = "Error" THEN out.message
    ELSE CASE fn = "requestVerificationCode" -> SendCodeDefaultMessage
           [] fn = "submitVerificationCode" -> VerifyDefaultMessage
           [] OTHER -> PasswordDefaultMessage

\* the completion of a sendCode or login call that failed, not with the
\* two-factor signal
OtherFailure ==
    /\ last'.op = "resolved"
    /\ last'.fn \in {"requestVerificationCode", "submitVerificationCode", "submitTwoFactorPassword"}
    /\ last'.out \in Thrown \ {TwoFactorRequired}

Credentials(s) == <<s.phoneNumber, s.verificationCode, s.twoFactorPassword>>

\* C10 as stated: after such a failure the step in which the call was issued is
\* the one shown, no credential field has changed and error is the failure's
\* message
C10_FailureKeepsIssuingStep ==
    [][ OtherFailure
            => /\ FormStep(state') = IssuingStep(last'.fn)
               /\ Credentials(state') = Credentials(state)
               /\ state'.error = FailureText(last'.fn, last'.out) ]_vars

\* C10 as amended: such a failure changes neither the step flags nor a credential
\* field, whatever step is shown when the call resolves, and sets error to the
\* failure's message (the default text of the function for a thrown value that is
\* no Error), which is not empty
C10_FailureKeepsStep ==
    [][ OtherFailure
            => /\ FlagsSet(state') = FlagsSet(state)
               /\ Credentials(state') = Credentials(state)
               /\ state'.error = FailureText(last'.fn, last'.out)
               /\ state'.error \notin {Null, ""} ]_vars

\* a password login failed with an ordinary Error and the password step is still
\* shown with the Error's message
C10_Witness ==
    /\ last.op = "resolved"
    /\ last.fn = "submitTwoFactorPassword"
    /\ last.out = ThrownError("PHONE_CODE_INVALID")
    /\ last.step = "password"
    /\ state.needPassword
    /\ state.error = "PHONE_CODE_INVALID"
    /\ state.twoFactorPassword # ""

\* C11: isLoading is true exactly in the states in which a useAuth call is in
\* flight
C11_LoadingIffInFlight == state.isLoading <=> (inflight # << >>)

\* the completion of any awaited call
CompletedAny == last'.op = "resolved"

\* C12: every completion, whatever the outcome, leaves isLoading false; and a
\* submit that arrives with isLoading false and the shown step's field filled in
\* is accepted and issues one new call
C12_NeverStuckBusy ==
    [][ /\ CompletedAny => ~state'.isLoading
        /\ (Handled("handleLogin") /\ ~state.isLoading /\ FormStep(state) # "none"
                /\ canSubmit(state))
            => (last'.issued /\ Len(inflight') = Len(inflight) + 1) ]_vars

\* a code login threw a value that is no Error; nothing is loading and the code
\* form can be submitted again
C12_Witness ==
    /\ last.op = "resolved"
    /\ last.fn = "submitVerificationCode"
    /\ last.out = ThrownOther
    /\ ~state.isLoading
    /\ FormStep(state) = "code"
    /\ canSubmit(state)
    /\ inflight = << >>

\* a step taken by the user on the form: submit, restart, the settings toggle or
\* an input
UserAction == last'.op \in {"handleLogin", "retryLogin", "toggleAdvancedSettings", "input"}

\* C13 as stated: no user action changes the shown step while isLoading is true
C13_NoStepChangeWhileLoading ==
    [][ (UserAction /\ state.isLoading) => FlagsSet(state') = FlagsSet(state) ]_vars

\* C13 as amended: a submit, an input and the settings toggle never change the
\* step flags, and a submit issues a call (whose completion may change the step)
\* only from a state in which isLoading is false; retryLogin is not covered: it
\* shows the phone step whether or not isLoading is true
C13_SubmitGatedByLoading ==
    [][ /\ (UserAction /\ ~Handled("retryLogin")) => FlagsSet(state') = FlagsSet(state)
        /\ (Handled("handleLogin") /\ last'.issued) => ~state.isLoading ]_vars

\* a submit in the code step was accepted while nothing was loading
C13_Witness ==
    /\ last.op = "handleLogin"
    /\ last.fn = "submitVerificationCode"
    /\ last.issued
    /\ ~last.busy
    /\ state.isLoading
    /\ state.needCode

\* the session shows the phone step, is not connected and has no error
InPhoneNoError(s) == FlagsSet(s) = {"needPhoneNumber"} /\ s.error = Null

StaleLoginCompletes ==
    /\ last'.op = "resolved"
    /\ last'.fn \in {"submitVerificationCode", "submitTwoFactorPassword"}
    /\ FlagsSet(state) = {"needPhoneNumber"}

\* C15: the resolution of a login call that was in flight when retryLogin ran
\* changes neither the step flags nor error nor isConnected
C15_StaleResultUnobservable ==
    [][ StaleLoginCompletes
            => /\ FlagsSet(state') = FlagsSet(state)
               /\ state'.error = state.error ]_vars

\* the startup status query has been issued and has resolved
StatusSettled ==
    /\ pc = "done"
    /\ \A i \in DOMAIN inflight : inflight[i].fn # "checkLoginStatus"

\* C16: a sendCode or login call is issued only after the startup status query
\* has been issued and has resolved
C16_NoCallBeforeStatus ==
    [][ (Handled("handleLogin") /\ last'.issued) => StatusSettled ]_vars

\* the function a submit must reach, most advanced step first
Target(s) ==
    IF s.needPassword THEN "submitTwoFactorPassword"
    ELSE IF s.needCode THEN "submitVerificationCode"
    ELSE IF s.needPhoneNumber THEN "requestVerificationCode"
    ELSE "none"

\* C17: one submit reaches one function, the password login if needPassword is
\* set, else the code login if needCode is set, else sendCode if needPhoneNumber
\* is set; it issues at most one call, that of the function reached, and none
\* when no flag is set
C17_MostAdvancedFirst ==
    [][ Handled("handleLogin")
            => /\ last'.fn = Target(state)
               /\ last'.issued
                    => (last'.call.fn = Target(state)
                        /\ inflight' = Append(inflight, Pending(last'.call)))
               /\ ~last'.issued => (inflight' = inflight /\ state' = state)
               /\ Target(state) = "none" => ~last'.issued ]_vars

\* all three flags were set and the submit issued the password login
C17_Witness ==
    /\ last.op = "handleLogin"
    /\ last.issued
    /\ last.call.fn = "submitTwoFactorPassword"
    /\ state.needPassword /\ state.needCode /\ state.needPhoneNumber
    /\ Len(inflight) = 1
    /\ inflight[1].fn = "submitTwoFactorPassword"

\* the request carries a credential override: an apiId and an apiHash
CarriesCredentials(options) ==
    options.present /\ options.apiId # Undefined /\ options.apiHash # Undefined

\* a submit has just issued a call; showAdvancedSettings is as it was at the
\* moment of the submit, which does not assign it
CallIssued == last.op = "handleLogin" /\ last.issued

\* C18 as stated: an issued sendCode or login call carries the credential
\* override exactly when showAdvancedSettings is true at the submit
C18_CredentialsIffAdvanced ==
    CallIssued => (CarriesCredentials(last.call.options) <=> state.showAdvancedSettings)

\* C18 as amended: with the advanced settings off the call carries no option,
\* whatever apiId and apiHash hold; with them on it carries the typed apiId as a
\* number and the typed apiHash, each replaced by the configured value when it is
\* empty, and left undefined when there is no configured value either
C18_CredentialsOnlyIfAdvanced ==
    CallIssued =>
        /\ ~state.showAdvancedSettings => last.call.options = NoOptions
        /\ CarriesCredentials(last.call.options) => state.showAdvancedSettings
        /\ state.showAdvancedSettings =>
            /\ last.call.options.present
            /\ state.apiId # "" => last.call.options.apiId = Some(NumberOf(state.apiId))
            /\ state.apiHash # "" => last.call.options.apiHash = Some(state.apiHash)
            /\ (state.apiId = "" /\ config.telegram /\ config.apiId # "")
                => last.call.options.apiId = Some(NumberOf(config.apiId))
            /\ (state.apiHash = "" /\ config.telegram)
                => last.call.options.apiHash = Some(config.apiHash)
            /\ (state.apiId = "" /\ ~config.telegram)
                => last.call.options.apiId = Undefined
            /\ (state.apiHash = "" /\ ~config.telegram)
                => last.call.options.apiHash = Undefined

\* a call was issued with the advanced settings closed while apiId and apiHash
\* were both filled in: it carries no option
C18_Witness ==
    /\ CallIssued
    /\ ~state.showAdvancedSettings
    /\ state.apiId = "611335"
    /\ state.apiHash = "d524b414"
    /\ last.call.options = NoOptions

C20_StoredPhoneIsSubmitted ==
    ( /\ server.request.route = "send-code"
      /\ server.response.success
      /\ ~server.connected )
        => server.telegram.phoneNumber = server.request.phoneNumber[1]

\* the three flags that choose the field of the form
FormFlags == {"needPhoneNumber", "needCode", "needPassword"}

\* C22: in every reachable state at most one of needPhoneNumber, needCode,
\* needPassword is true, whatever the interleaving of submits, restart and
\* completions.
C22_AtMostOneFormFlag == Cardinality({f \in FormFlags : state[f]}) <= 1

\* a code login issued in the Code step resolves after a restart, in the Phone
\* step, asks for the password and moves the form to the Password step
C22_Witness ==
    /\ last.op = "resolved"
    /\ last.fn = "submitVerificationCode"
    /\ last.step = "phone"
    /\ state.needPassword
    /\ C22_AtMostOneFormFlag

\* the step in which the server answers a logout request
LogoutAnswered ==
    Cardinality({i \in DOMAIN layout'.calls : layout'.calls[i] # Undefined})
        > Cardinality({i \in DOMAIN layout.calls : layout.calls[i] # Undefined})

\* the step in which a logout call of the layout resolves
LogoutResolved == Len(layout'.calls) < Len(layout.calls)

\* C21: /logout calls client.logout only when the client is connected; it
\* answers success after logging out and when the client was disconnected
\* already; a failure of isConnected or of logout gives an error response; and
\* on an error response handleLogout does not navigate to /login.
C21_Logout ==
    [][ /\ LogoutAnswered =>
            /\ ("logout" \in server'.called) => server.connected
            /\ server'.completed =>
                    /\ server'.response = createResponse(SuccessData, NoError)
                    /\ ~server'.connected
                    /\ ("logout" \in server'.called) <=> server.connected
            /\ ~server'.completed =>
                    ~server'.response.success /\ server'.response.error # ""
        /\ (LogoutResolved /\ ~layout'.answer.success) =>
            /\ layout'.route = layout.route
            /\ layout'.toast = "error" ]_vars

\* a second logout was answered success without client.logout, after a first
\* that failed had left the layout where it was
C21_Witness ==
    /\ server.request.route = "logout"
    /\ server.response.success
    /\ "logout" \notin server.called
    /\ layout.answer # NoResponse
    /\ ~layout.answer.success
    /\ layout.route = "/"
    /\ layout.toast = "error"

\* C23: /send-code never answers success without having called
\* client.sendCode, so a page that enters the Code step on that answer
\* announces a code that was requested.
C23_SuccessMeansCodeSent ==
    (server.request.route = "send-code" /\ server.response.success)
        => "sendCode" \in server.called

\* messages, total and chat as one value
Shown(u) == [items |-> u.messages, chat |-> u.chat, total |-> u.total]

\* two requests for different chats overlapped and both resolved with data,
\* the later of them being the last that was issued, and nothing is in flight
BothResolved(a, b) ==
    /\ useMessages.calls = << >>
    /\ b.call.id = useMessages.issued
    /\ a.call.id \in b.call.overlaps
    /\ a.call.chatId # b.call.chatId
    /\ a.data # Undefined /\ b.data # Undefined

\* C24: when two loadMessages calls for different chats overlap, after both
\* have resolved messages, total and chat are those of the chat requested
\* last; at every instant the three come from one response; and a request
\* that failed leaves the three as they were and loadMessages does not throw.
C24_LastRequestWins ==
    /\ [](\A a, b \in useMessages.settled :
            BothResolved(a, b) => Shown(useMessages) = b.data[1])
    /\ [](\/ Shown(useMessages) = Shown(useMessagesStart)
          \/ \E a \in useMessages.settled :
                a.data # Undefined /\ Shown(useMessages) = a.data[1])
    /\ [][(Len(useMessages'.calls) < Len(useMessages.calls)
            /\ useMessages'.done.data = Undefined)
                => (Shown(useMessages') = Shown(useMessages) /\ ~useMessages'.threw)]_vars

\* C25: for limit >= 1, offset >= 0, total >= 0 the pagination block has
\* page = floor(offset/limit) + 1 and totalPages = ceil(total/limit), so that
\* page <= totalPages whenever offset < total, and totalPages * limit >= total;
\* limit and offset default to 50 and 0 when omitted, which gives page 1.
C25_Pagination ==
    messagesRoute.response.success =>
        LET q == messagesRoute.query
            limit == IF q.limit = Undefined THEN 50 ELSE Number(q.limit[1])
            offset == IF q.offset = Undefined THEN 0 ELSE Number(q.offset[1])
            total == messagesRoute.total
            p == messagesRoute.pagination[1]
        IN  /\ (p.page - 1) * limit <= offset /\ offset < p.page * limit
            /\ p.totalPages * limit >= total
            /\ (p.totalPages - 1) * limit < total \/ (total = 0 /\ p.totalPages = 0)
            /\ offset < total => p.page <= p.totalPages
            /\ p.pageSize = limit /\ p.total = total
            /\ (q.limit = Undefined /\ q.offset = Undefined) =>
                    (p.pageSize = 50 /\ p.page = 1)

\* the last page of a listing of several pages, cut short by the total
C25_Witness ==
    /\ messagesRoute.response.success
    /\ messagesRoute.query.limit # Undefined
    /\ messagesRoute.query.offset # Undefined
    /\ messagesRoute.pagination[1].page > 1
    /\ messagesRoute.pagination[1].page = messagesRoute.pagination[1].totalPages
    /\ messagesRoute.total % messagesRoute.pagination[1].pageSize # 0

====
